---- MODULE Spec2Model ----
(***************************************************************************)
(* Model of the dispatch engine of TransportAgreement                      *)
(* (src/dev/send_emails_smtp.py): main(), count_pending_tasks(),           *)
(* send_with_retries(), send_one_email(), _create_smtp_connection() and    *)
(* BurstPacer.  Spec is a call of main() (and a second one after a fully   *)
(* successful call), SpecPacer the pacer alone, SpecBuild the task         *)
(* building of main() next to count_pending_tasks().                       *)
(*                                                                         *)
(* Durations are integers in tenths of a second (10.0 s = 100).  The       *)
(* jitter factor random.uniform(0.8, 1.2) is a percentage drawn from       *)
(* JitterPercents.  A task's files are numbered inside their group; a      *)
(* group is one (origin folder, destination code) pair of the pending      *)
(* tree.                                                                   *)
(***************************************************************************)
EXTENDS Integers, Sequences, FiniteSets, TLC

\* ---------------------------------------------------------------- bounds
ShortRun == 4       \* groups under the root when faults are unlimited
ExtraTasks == 1     \* groups beyond BURST_SIZE in a run with few faults
LongRunFaults == 1  \* faults injected into a run longer than ShortRun
MaxFiles == 2       \* files of the first group (every other group has one)
FlakyGroups == 1    \* groups whose file moves / failed-dir creation may fail
MaxRuns == 2        \* calls of main() on one root directory
MaxBuildGroups == 3 \* groups under the root when the task builder runs alone
MaxSlices == 1      \* 0.5 s slices counted in one wait
MaxHalfOpen == 1    \* connections of failed attempts counted as left open
SlicedRun == 1      \* groups under the root when the slices of a wait and
                    \* the connection a retry opens for itself are varied
                    \* (in a call without progress_callback)
ObservedRun == 2    \* groups under the root when the observer and the file
                    \* moves are varied (the moves in a call whose
                    \* progress_callback returns)

\* ------------------------------------------------------ program constants
BURST_SIZE == 5
BURST_PAUSE_INITIAL == 100
BURST_PAUSE_MIN == 30
BURST_PAUSE_MAX == 600
BURST_PAUSE_DECREASE == 5
BURST_PAUSE_MULTIPLY == 2
MAX_RETRIES == 5
RETRY_BASE_DELAY == 300
RETRY_MAX_DELAY == 600
CONN_MAX_ATTEMPTS == 3
CONN_FAIL_LIMIT == 3

\* random.uniform(0.8, 1.2), in percent
JitterPercents == {80, 100, 120}
\* smtp_code of a failed attempt: try-again, another code, no code at all
ErrorCodes == {"421", "550", "None"}
\* what one call of send_one_email can do
Outcomes == {"ok", "e421", "e550", "eNone", "empty", "raise"}
\* the progress_callback handed to main(): none, one that returns, one that
\* raises on every call
Observers == {"None", "ok", "raises"}

Min(a, b) == IF a <= b THEN a ELSE b
Max(a, b) == IF a >= b THEN a ELSE b

VARIABLES
    pc,            \* position of the worker inside main()
    stop,          \* stop_event.is_set()
    smtp_config,   \* what load_smtp_config returned
    project,       \* group -> the origin folder it lies in
    supplier_code, \* group -> its destination code (five digits)
    dirs,          \* origin folder -> its name and its two subfolders
    project_names, \* the origin-folder filter ({}: no filter)
    email_addresses, \* the keys of the address book
    progress_callback, \* "None", or how the observer behaves when called
    budget,        \* faults the environment may still inject (-1: no limit)
    nfiles,        \* group -> number of files found in its pending folder
    loc,           \* group -> file -> "pending" | "sent" | "failed"
    tasks,         \* the task list built by main()
    total,         \* len(tasks)
    i,             \* 1-based index of the task the for loop is at
    success,       \* result["success"]
    failed,        \* result["failed"]
    cancelled,     \* result["cancelled"]
    smtp_server,   \* TRUE iff the loop holds a session
    consecutive_conn_failures,
    conn_attempt,  \* `attempt` of _create_smtp_connection
    pause,         \* BurstPacer.pause
    old,           \* `old` of BurstPacer._do_pause
    burst_count,   \* BurstPacer.burst_count
    burst_had_421, \* BurstPacer.burst_had_421
    attempt,       \* `attempt` of send_with_retries (0 = first attempt)
    retry_delay,   \* `retry_delay` of send_with_retries
    wait_time,     \* `wait_time` of send_with_retries
    last_code,     \* `last_code` of send_with_retries
    sent_ok,       \* `success` returned by send_with_retries
    status,        \* history: group -> how its task was resolved
    sends,         \* history: send_one_email calls made for the current task
    first421,      \* history: the current task's first attempt returned 421
    recov,         \* history: last task of this burst that recovered from a 421
    burst_transient, \* history: an attempt of this burst returned 421
    stuck,         \* history: the files whose move raised
    observed,      \* history: a checkpoint has seen the token set
    earlyStop,     \* history: the token was set before the first task started
    completed,     \* `completed` of main()
    samples,       \* history: calls of progress_callback made
    last_sample,   \* history: what the last call passed and what then held
    slept,         \* the duration _do_pause is sleeping for (0: not sleeping)
    preview,       \* what count_pending_tasks last returned (-1: not called)
    run,           \* which call of main() on this root directory this is
    prev_stuck,    \* history: a file move raised in the call before this one
    prev_success,  \* history: the call before this one had tasks and counted
                   \* every one of them as success
    cancel_run,    \* history: the call during which the token was set (0: it
                   \* is not set)
    loc0,          \* history: loc when this call of main() began
    half_open,     \* connections that a failed attempt of
                   \* _create_smtp_connection opened and nothing closed yet
    own_server,    \* TRUE iff send_one_email holds a session it opened itself
    own_attempt,   \* `attempt` of the _create_smtp_connection it called
    slices,        \* 0.5 s slices slept in the wait the worker is in
    overslept,     \* history: a slice was slept after a check with the token set
    handed,        \* history: tasks handed to send_with_retries since the pause
    late_sends,    \* history: calls of send_one_email begun with the token set
    stop_at,       \* history: tasks begun when the token was set (the last of
                   \* them is the one in progress)
    delivered      \* history: the groups a call of send_one_email succeeded for

vars == <<pc, stop, smtp_config, project, supplier_code, dirs, project_names,
          email_addresses, progress_callback, budget, nfiles, loc, tasks, total, i, success, failed,
          cancelled, smtp_server, consecutive_conn_failures, conn_attempt,
          pause, old, burst_count, burst_had_421, attempt, retry_delay,
          wait_time, last_code, sent_ok, status, sends, first421, recov,
          burst_transient, stuck, observed, earlyStop, completed, samples,
          last_sample, slept, preview, run, prev_stuck, prev_success,
          cancel_run, loc0, half_open,
          own_server,
          own_attempt, slices, overslept, handed, late_sends, stop_at,
          delivered>>

Unlimited == 0 - 1
NotCalled == 0 - 1
staticVars == <<smtp_config, project, supplier_code, dirs, project_names,
                email_addresses, progress_callback, nfiles>>
inputVars == <<staticVars, budget>>
progressVars == <<completed, samples, last_sample>>
runVars == <<run, prev_stuck, prev_success, cancel_run, loc0, half_open>>
moreVars == <<progressVars, slept, preview, runVars>>
ownVars == <<own_server, own_attempt>>
sliceVars == <<slices, overslept>>
ghostVars == <<handed, late_sends, stop_at, delivered>>
laterVars == <<ownVars, sliceVars, ghostVars>>
taskVars == <<tasks, total>>
resultVars == <<success, failed, cancelled>>
connVars == <<smtp_server, consecutive_conn_failures, conn_attempt>>
pacerVars == <<pause, old, burst_count, burst_had_421>>
retryVars == <<attempt, retry_delay, wait_time, last_code, sent_ok>>
histVars == <<status, sends, first421, recov>>

Groups == DOMAIN nfiles
FilesOf(g) == 1..nfiles[g]
\* the group of the task the loop is at
cur == tasks[i]

\* ------------------------------------------------------------ credentials
\* load_smtp_config: nothing loaded, or a section with or without its fields
Configs ==
    {[loaded |-> FALSE, host |-> FALSE, username |-> FALSE]} \cup
    {[loaded |-> TRUE, host |-> h, username |-> u] : h, u \in BOOLEAN}

\* mutant: the username is not asked for
usable_hostonly(c) == c.loaded /\ c.host

\* the check main() makes before anything else
usable(c) == c.loaded /\ c.host /\ c.username

cfgOk == usable(smtp_config)

\* ------------------------------------------------------------- TaskBuilder
\* A code is a sequence of five digits, an address-book key a sequence of
\* digits.  The groups are numbered in the order os.listdir yields their
\* first file; the origin folders are numbered in the order of their names.
Projects == DOMAIN dirs

\* str(int(code)): the code without its leading zeros
RECURSIVE strip_zeros(_)
strip_zeros(c) ==
    IF Len(c) > 1 /\ Head(c) = 0 THEN strip_zeros(Tail(c)) ELSE c

\* mutant: only the exact key is looked up
resolvable_exact(c) == c \in email_addresses

\* email_addresses.get(code) or email_addresses.get(str(int(code)))
resolvable(c) == c \in email_addresses \/ strip_zeros(c) \in email_addresses

\* mutant: the scan also finds the files that were moved away
task_files_all(g) == FilesOf(g)

\* the files collect_supplier_files finds for a group
task_files(g) == {k \in FilesOf(g) : loc[g][k] = "pending"}

\* the entries of the root directory that are walked: directories named
\* "...项目", narrowed by the filter when one is given
to_process(f) ==
    dirs[f].named /\ (project_names = {} \/ f \in project_names)

\* the groups of folder f with a pending file and an address, from group g on
RECURSIVE BuildFrom(_, _, _)
BuildFrom(f, g, n) ==
    IF g > n THEN <<>>
    ELSE IF project[g] = f /\ task_files(g) # {}
            /\ resolvable(supplier_code[g])
         THEN <<g>> \o BuildFrom(f, g + 1, n)
         ELSE BuildFrom(f, g + 1, n)

\* the walk over the folders f..last, in the order of their names; main()
\* wants both subfolders, count_pending_tasks only the pending one
RECURSIVE walk(_, _, _)
walk(f, last, need_sent) ==
    IF f > last THEN <<>>
    ELSE (IF to_process(f) /\ dirs[f].pending
             /\ (need_sent => dirs[f].sent)
          THEN BuildFrom(f, 1, Cardinality(Groups))
          ELSE <<>>) \o walk(f + 1, last, need_sent)

BuildTasks == walk(1, Cardinality(Projects), TRUE)

count_pending_tasks == Len(walk(1, Cardinality(Projects), FALSE))

\* -------------------------------------------------------------- BurstPacer
\* mutant: the pause comes one task early
need_pause_early(count) == count >= BURST_SIZE - 1

need_pause(count) == count >= BURST_SIZE

\* mutant: the shortened pause has no floor
adjusted_pause_unfloored(p, had421) ==
    IF had421 THEN Min(BURST_PAUSE_MAX, p * BURST_PAUSE_MULTIPLY)
    ELSE p - BURST_PAUSE_DECREASE

\* mutant: the two branches of the adjustment swapped
adjusted_pause_swapped(p, had421) ==
    IF ~had421 THEN Min(BURST_PAUSE_MAX, p * BURST_PAUSE_MULTIPLY)
    ELSE Max(BURST_PAUSE_MIN, p - BURST_PAUSE_DECREASE)

adjusted_pause(p, had421) ==
    IF had421 THEN Min(BURST_PAUSE_MAX, p * BURST_PAUSE_MULTIPLY)
    ELSE Max(BURST_PAUSE_MIN, p - BURST_PAUSE_DECREASE)

\* mutant: the sleep takes the duration held before the adjustment
sleep_arg_before(before, after) == before

\* the duration _do_pause hands to _interruptible_sleep
sleep_arg(before, after) == after

\* burst_had_421 after on_send_result(ok, code)
flag_after_result(flag, ok, code) == flag \/ (~ok /\ code = "421")

\* mutant: on_retry_421 is never called
flag_after_attempt_silent(flag, code) == flag

\* burst_had_421 after a failed attempt inside send_with_retries
flag_after_attempt(flag, code) == flag \/ code = "421"

\* ------------------------------------------------------- send_with_retries
\* mutant: one round too many
retry_exhausted_late(a) == a > MAX_RETRIES

\* mutant: the range of the retry loop never runs out
retry_exhausted_never(a) == FALSE

retry_exhausted(a) == a >= MAX_RETRIES

jittered(delay, j) == (delay * j) \div 100

\* mutant: the cap is dropped
next_retry_delay_uncapped(d) == d * 2

next_retry_delay(d) == Min(d * 2, RETRY_MAX_DELAY)

\* the error code send_one_email returns for a failed outcome
code_of(out) ==
    IF out = "e421" THEN "421" ELSE IF out = "e550" THEN "550" ELSE "None"

\* the outcomes send_one_email can have: an address that yields no recipient
\* returns before the session is touched, and every other failure drops it,
\* so a session that survived a failed attempt means the address is empty
outcomes_of(first, held) ==
    IF first THEN Outcomes
    ELSE IF held THEN {"empty"} ELSE Outcomes \ {"empty"}

\* the environment injects a fault only while its budget lasts; an empty
\* address is one fault, however often the task is retried
may_fault == budget # 0
spent(b) == IF b = Unlimited THEN b ELSE b - 1
available(first, held) ==
    IF ~first /\ held THEN {"empty"}
    ELSE IF may_fault THEN outcomes_of(first, held) ELSE {"ok"}
costs(out, first, held) == out # "ok" /\ (first \/ ~held)
conn_results == IF may_fault THEN BOOLEAN ELSE {TRUE}
\* the calls in which the slices of a wait, the connection a retry opens for
\* itself and what a failed attempt leaves open are varied (sliced), and
\* those in which the file moves are (detailed)
sliced == Cardinality(Groups) <= SlicedRun /\ progress_callback = "None"
detailed == Cardinality(Groups) <= ObservedRun /\ progress_callback = "ok"
own_conn_results == IF may_fault /\ sliced THEN BOOLEAN ELSE {TRUE}

\* what a failed connection attempt leaves open: nothing when the connect
\* itself was refused, the connection when starttls or login raised (server
\* is never closed in the except branch; the object lives on in the
\* traceback of last_err until the interpreter collects it)
left_open == IF sliced THEN {0, 1} ELSE {0}

\* mutant: a failed send leaves the session with the loop
server_after_kept(out, held) == held

\* the session the loop holds after the call: kept by a send that worked
\* over it, by an empty address and by a raise of _build_message (the
\* assignment in main() is not reached); dropped by every failed send
server_after(out, held) ==
    IF out \in {"ok", "empty", "raise"} THEN held ELSE FALSE

\* ---------------------------------------------------------------- Init
\* everything but the inputs: nothing moved, counters and pacer as constructed
InitState ==
    /\ stop = FALSE
    /\ loc = [g \in Groups |-> [k \in FilesOf(g) |-> "pending"]]
    /\ tasks = <<>>
    /\ total = 0
    /\ i = 0
    /\ success = 0
    /\ failed = 0
    /\ cancelled = FALSE
    /\ smtp_server = FALSE
    /\ consecutive_conn_failures = 0
    /\ conn_attempt = 0
    /\ pause = BURST_PAUSE_INITIAL
    /\ old = BURST_PAUSE_INITIAL
    /\ burst_count = 0
    /\ burst_had_421 = FALSE
    /\ attempt = 0
    /\ retry_delay = 0
    /\ wait_time = 0
    /\ last_code = "None"
    /\ sent_ok = FALSE
    /\ status = [g \in Groups |-> "unreached"]
    /\ sends = 0
    /\ first421 = FALSE
    /\ recov = 0
    /\ burst_transient = FALSE
    /\ stuck = {}
    /\ observed = FALSE
    /\ earlyStop = FALSE
    /\ completed = 0
    /\ samples = 0
    /\ last_sample = [completed |-> 0, resolved |-> 0]
    /\ slept = 0
    /\ preview = NotCalled
    /\ run = 1
    /\ prev_stuck = FALSE
    /\ prev_success = FALSE
    /\ cancel_run = 0
    /\ loc0 = loc
    /\ half_open = 0
    /\ own_server = FALSE
    /\ own_attempt = 0
    /\ slices = 0
    /\ overslept = FALSE
    /\ handed = 0
    /\ late_sends = 0
    /\ stop_at = 0
    /\ delivered = {}

\* main() is about to be called on a root directory with n groups
Init ==
    /\ pc = "idle"
    /\ smtp_config \in Configs
    /\ dirs = <<[named |-> TRUE, pending |-> TRUE, sent |-> TRUE]>>
    /\ project_names = {}
    /\ \E n \in 0..(BURST_SIZE + ExtraTasks) :
          /\ nfiles = [g \in 1..n |-> IF g = 1 THEN MaxFiles ELSE 1]
          /\ project = [g \in 1..n |-> 1]
          /\ supplier_code = [g \in 1..n |-> <<0, 0, 0, 0, g>>]
          /\ email_addresses =
                 {IF g % 2 = 1 THEN <<0, 0, 0, 0, g>> ELSE <<g>> : g \in 1..n}
          /\ \/ /\ n <= ShortRun
                /\ budget = Unlimited
                /\ IF n <= ObservedRun
                   THEN progress_callback \in Observers
                   ELSE progress_callback = "ok"
             \/ /\ n > ShortRun
                /\ budget \in 0..LongRunFaults
                /\ progress_callback = "ok"
    /\ InitState

\* ------------------------------------------------------------ environment
\* another thread sets the cancellation token (gui._on_cancel_send)
Cancel ==
    /\ ~stop
    /\ pc \notin {"done", "raised"}
    /\ stop' = TRUE
    /\ earlyStop' = (pc = "idle" \/ (pc = "task_start" /\ i = 1))
    /\ stop_at' = IF pc = "task_start" THEN i - 1 ELSE i
    /\ cancel_run' = run
    /\ UNCHANGED <<pc, inputVars, progressVars, slept, preview, run,
                   prev_stuck, prev_success, loc0, half_open, ownVars, sliceVars, handed,
                   late_sends, delivered, loc, taskVars, i, resultVars, connVars,
                   pacerVars, retryVars, histVars, observed,
                   burst_transient, stuck>>

\* ------------------------------------------------------------------ main
\* main() up to the for loop: credentials, task list, empty-list return
Preflight ==
    /\ pc = "idle"
    /\ IF ~cfgOk
       THEN /\ pc' = "done"
            /\ UNCHANGED <<taskVars, i>>
       ELSE /\ tasks' = BuildTasks
            /\ total' = Len(tasks')
            /\ IF total' = 0
               THEN pc' = "done" /\ i' = i
               ELSE pc' = "task_start" /\ i' = 1
    /\ UNCHANGED <<stop, inputVars, moreVars, laterVars, loc, resultVars, connVars, pacerVars,
                   retryVars, histVars, observed, earlyStop,
                   burst_transient, stuck>>

\* mutant: the loop breaks on the token without marking the result
TaskStart_unmarked ==
    /\ pc = "task_start"
    /\ IF i > total
       THEN /\ pc' = "finally"
            /\ UNCHANGED <<cancelled, observed>>
       ELSE IF stop
            THEN /\ cancelled' = cancelled
                 /\ observed' = TRUE
                 /\ pc' = "finally"
            ELSE /\ pc' = "before_send"
                 /\ UNCHANGED <<cancelled, observed>>
    /\ sends' = 0
    /\ first421' = FALSE
    /\ UNCHANGED <<stop, inputVars, moreVars, laterVars, loc, taskVars, i, success, failed,
                   connVars, pacerVars, retryVars, status, recov, earlyStop,
                   burst_transient, stuck>>

\* the head of the for loop and the token check that opens its body
TaskStart ==
    /\ pc = "task_start"
    /\ IF i > total
       THEN /\ pc' = "finally"
            /\ UNCHANGED <<cancelled, observed>>
       ELSE IF stop
            THEN /\ cancelled' = TRUE
                 /\ observed' = TRUE
                 /\ pc' = "finally"
            ELSE /\ pc' = "before_send"
                 /\ UNCHANGED <<cancelled, observed>>
    /\ sends' = 0
    /\ first421' = FALSE
    /\ UNCHANGED <<stop, inputVars, moreVars, laterVars, loc, taskVars, i, success, failed,
                   connVars, pacerVars, retryVars, status, recov, earlyStop,
                   burst_transient, stuck>>

\* pacer.before_send up to the sleep of _do_pause
BeforeSend ==
    /\ pc = "before_send"
    /\ IF need_pause(burst_count)
       THEN /\ old' = pause
            /\ pause' = adjusted_pause(pause, burst_had_421)
            /\ slept' = sleep_arg(old', pause')
            /\ pc' = "pausing"
       ELSE /\ pc' = "after_pace"
            /\ UNCHANGED <<pause, old, slept>>
    /\ UNCHANGED <<stop, inputVars, progressVars, preview, runVars,
                   laterVars, loc, taskVars, i, resultVars, connVars,
                   burst_count, burst_had_421, retryVars, histVars,
                   observed, earlyStop,
                   burst_transient, stuck>>

\* _interruptible_sleep(self.pause) returns (slept out or interrupted) and
\* _do_pause resets the burst
PauseEnd ==
    /\ pc = "pausing"
    /\ burst_count' = 0
    /\ burst_had_421' = FALSE
    /\ recov' = 0
    /\ burst_transient' = FALSE
    /\ slept' = 0
    /\ slices' = 0
    /\ handed' = 0
    /\ pc' = "after_pace"
    /\ UNCHANGED <<stop, inputVars, progressVars, preview, runVars,
                   ownVars, overslept, late_sends, stop_at, delivered,
                   loc, taskVars, i, resultVars, connVars,
                   pause, old, retryVars, status, sends, first421,
                   observed, earlyStop,
                   stuck>>

\* the token check after the pacer, then the choice connect / send
AfterPace ==
    /\ pc = "after_pace"
    /\ IF stop
       THEN /\ cancelled' = TRUE
            /\ observed' = TRUE
            /\ pc' = "finally"
            /\ UNCHANGED conn_attempt
       ELSE /\ IF smtp_server
               THEN pc' = "send" /\ UNCHANGED conn_attempt
               ELSE pc' = "connect" /\ conn_attempt' = 0
            /\ UNCHANGED <<cancelled, observed>>
    /\ UNCHANGED <<stop, inputVars, moreVars, laterVars, loc, taskVars, i, success, failed,
                   smtp_server, consecutive_conn_failures, pacerVars,
                   retryVars, histVars, earlyStop,
                   burst_transient, stuck>>

\* mutant: the loop goes on after the third consecutive failure
ConnFailed_noabort(sawStop) ==
    /\ failed' = failed + 1
    /\ consecutive_conn_failures' = consecutive_conn_failures + 1
    /\ status' = [status EXCEPT ![cur] = "connfailed"]
    /\ observed' = (observed \/ sawStop)
    /\ pc' = "task_start"
    /\ i' = i + 1
    /\ completed' = completed + 1
    /\ UNCHANGED <<success, cancelled, smtp_server, conn_attempt>>

\* mutant: the connection failure is not counted
ConnFailed_uncounted(sawStop) ==
    /\ failed' = failed
    /\ consecutive_conn_failures' = consecutive_conn_failures + 1
    /\ status' = [status EXCEPT ![cur] = "connfailed"]
    /\ observed' = (observed \/ sawStop)
    /\ IF consecutive_conn_failures' >= CONN_FAIL_LIMIT
       THEN pc' = "finally" /\ i' = i
       ELSE pc' = "task_start" /\ i' = i + 1
    /\ completed' = completed + 1
    /\ UNCHANGED <<success, cancelled, smtp_server, conn_attempt>>

\* the except branch of the loop's connection establishment
ConnFailed(sawStop) ==
    /\ failed' = failed + 1
    /\ consecutive_conn_failures' = consecutive_conn_failures + 1
    /\ status' = [status EXCEPT ![cur] = "connfailed"]
    /\ observed' = (observed \/ sawStop)
    /\ IF consecutive_conn_failures' >= CONN_FAIL_LIMIT
       THEN pc' = "finally" /\ i' = i
       ELSE pc' = "task_start" /\ i' = i + 1
    /\ completed' = completed + 1
    /\ UNCHANGED <<success, cancelled, smtp_server, conn_attempt>>

\* mutant: a successful establishment leaves the counter as it is
failures_after_connect_kept(n) == n

\* consecutive_conn_failures after the loop established a session
failures_after_connect(n) == 0

\* one round of the for loop of _create_smtp_connection(stop_event=...)
Connect ==
    /\ pc = "connect"
    /\ IF stop
       THEN /\ ConnFailed(TRUE)
            /\ budget' = budget
            /\ half_open' = half_open
       ELSE \E ok \in conn_results :
              IF ok
              THEN /\ smtp_server' = TRUE
                   /\ consecutive_conn_failures' =
                          failures_after_connect(consecutive_conn_failures)
                   /\ pc' = "send"
                   /\ budget' = budget
                   /\ UNCHANGED <<i, success, failed, cancelled,
                                  conn_attempt, status, observed, completed,
                                  half_open>>
              ELSE /\ budget' = spent(budget)
                   /\ \E left \in left_open :
                         /\ half_open + left <= MaxHalfOpen
                         /\ half_open' = half_open + left
                   /\ IF conn_attempt < CONN_MAX_ATTEMPTS - 1
                      THEN /\ pc' = "conn_wait"
                           /\ UNCHANGED <<i, resultVars, connVars, status,
                                          observed, completed>>
                      ELSE ConnFailed(FALSE)
    /\ UNCHANGED <<stop, staticVars, samples, last_sample, slept, preview,
                   run, prev_stuck, prev_success, cancel_run, loc0,
                   laterVars, loc, taskVars, pacerVars,
                   retryVars, sends, first421, recov, earlyStop,
                   burst_transient, stuck>>

\* the interruptible wait between two connection attempts ends
ConnWait ==
    /\ pc = "conn_wait"
    /\ slices' = 0
    /\ IF stop
       THEN ConnFailed(TRUE)
       ELSE /\ conn_attempt' = conn_attempt + 1
            /\ pc' = "connect"
            /\ UNCHANGED <<i, resultVars, smtp_server,
                           consecutive_conn_failures, status, observed,
                           completed>>
    /\ UNCHANGED <<stop, inputVars, samples, last_sample, slept, preview,
                   runVars, ownVars, overslept, ghostVars, loc, taskVars, pacerVars, retryVars,
                   sends, first421, recov, earlyStop,
                   burst_transient, stuck>>

\* ------------------------------------------------------- send_with_retries
\* what follows a call of send_one_email with outcome out
AfterAttempt(out, first) ==
    /\ sends' = sends + 1
    /\ burst_transient' = (burst_transient \/ out = "e421")
    /\ delivered' = IF out = "ok" THEN delivered \cup {cur} ELSE delivered
    /\ smtp_server' = server_after(out, smtp_server)
    /\ IF out = "raise"
       THEN /\ pc' = "unwinding"
            /\ UNCHANGED <<burst_had_421, attempt, retry_delay, last_code,
                           sent_ok, first421>>
       ELSE IF out = "ok"
            THEN /\ sent_ok' = TRUE
                 /\ last_code' = "None"
                 /\ pc' = "resolve"
                 /\ UNCHANGED <<burst_had_421, attempt, retry_delay,
                                first421>>
            ELSE /\ last_code' = code_of(out)
                 /\ burst_had_421' =
                        flag_after_attempt(burst_had_421, code_of(out))
                 /\ retry_delay' = IF first THEN RETRY_BASE_DELAY
                                   ELSE next_retry_delay(retry_delay)
                 /\ attempt' = attempt + 1
                 /\ first421' = IF first THEN out = "e421" ELSE first421
                 /\ sent_ok' = FALSE
                 /\ pc' = "retry_check"

\* the first attempt, over the session the loop holds
SendFirst ==
    /\ pc = "send"
    /\ \E out \in available(TRUE, smtp_server) :
          /\ AfterAttempt(out, TRUE)
          /\ budget' = IF costs(out, TRUE, smtp_server) THEN spent(budget)
                       ELSE budget
    /\ handed' = handed + 1
    /\ late_sends' = IF stop THEN late_sends + 1 ELSE late_sends
    /\ stop_at' = stop_at
    /\ UNCHANGED <<stop, staticVars, moreVars, ownVars, sliceVars, loc, taskVars, i, resultVars,
                   consecutive_conn_failures, conn_attempt, pause, old,
                   burst_count, wait_time, status, recov, observed,
                   earlyStop,
                   stuck>>

\* mutant: the retry loop never finds the token set
is_set_never(stop_event) == FALSE

\* stop_event.is_set() as the retry loop of send_with_retries reads it
is_set(stop_event) == stop_event

\* the head of the retry loop: range exhausted, token set, or draw the wait
RetryCheck ==
    /\ pc = "retry_check"
    /\ IF retry_exhausted(attempt)
       THEN pc' = "resolve" /\ UNCHANGED <<wait_time, observed>>
       ELSE IF is_set(stop)
            THEN pc' = "resolve" /\ observed' = TRUE /\ UNCHANGED wait_time
            ELSE /\ \E j \in JitterPercents :
                      wait_time' = jittered(retry_delay, j)
                 /\ pc' = "retry_wait"
                 /\ UNCHANGED observed
    /\ UNCHANGED <<stop, inputVars, moreVars, laterVars, loc, taskVars, i, resultVars, connVars,
                   pacerVars, attempt, retry_delay, last_code, sent_ok,
                   histVars, earlyStop,
                   burst_transient, stuck>>

\* mutant: a wait the token interrupted leaves the loop at once, the task
\* neither counted nor moved
RetryWait_abandons ==
    /\ pc = "retry_wait"
    /\ IF is_set(stop)
       THEN pc' = "finally" /\ observed' = TRUE
       ELSE pc' = "retry_send" /\ UNCHANGED observed
    /\ wait_time' = 0
    /\ slices' = 0
    /\ UNCHANGED <<stop, inputVars, moreVars, ownVars, overslept, ghostVars, loc, taskVars, i, resultVars, connVars,
                   pacerVars, attempt, retry_delay, last_code, sent_ok,
                   histVars, earlyStop,
                   burst_transient, stuck>>

\* _interruptible_sleep(wait_time) returns, then the token check after it
RetryWait ==
    /\ pc = "retry_wait"
    /\ IF is_set(stop)
       THEN pc' = "resolve" /\ observed' = TRUE
       ELSE pc' = "retry_send" /\ UNCHANGED observed
    /\ wait_time' = 0
    /\ slices' = 0
    /\ UNCHANGED <<stop, inputVars, moreVars, ownVars, overslept, ghostVars, loc, taskVars, i, resultVars, connVars,
                   pacerVars, attempt, retry_delay, last_code, sent_ok,
                   histVars, earlyStop,
                   burst_transient, stuck>>

\* what sendmail can do over a session that was just opened
sendmail_results ==
    IF may_fault THEN Outcomes \ {"empty", "raise"} ELSE {"ok"}

\* a retry begins: send_one_email builds the message; over a session that is
\* still held the address is empty again, without one it goes on to open
\* its own unless _build_message raises
RetrySend ==
    /\ pc = "retry_send"
    /\ late_sends' = IF stop THEN late_sends + 1 ELSE late_sends
    /\ stop_at' = stop_at
    /\ IF smtp_server
       THEN /\ \E out \in available(FALSE, smtp_server) :
                  AfterAttempt(out, FALSE)
            /\ UNCHANGED <<budget, own_attempt>>
       ELSE \/ /\ may_fault
               /\ AfterAttempt("raise", FALSE)
               /\ budget' = spent(budget)
               /\ UNCHANGED own_attempt
            \/ /\ pc' = "reconnect"
               /\ own_attempt' = 0
               /\ UNCHANGED <<budget, smtp_server, sends, burst_transient,
                              delivered, burst_had_421, attempt, retry_delay,
                              last_code, sent_ok, first421>>
    /\ UNCHANGED <<stop, staticVars, moreVars, own_server, sliceVars, handed,
                   loc, taskVars, i, resultVars,
                   consecutive_conn_failures, conn_attempt, pause, old,
                   burst_count, wait_time, status, recov, observed,
                   earlyStop, stuck>>

\* one round of the for loop of _create_smtp_connection(smtp_config), called
\* by send_one_email without the token; the last failure is what
\* send_one_email catches and returns without a code
Reconnect ==
    /\ pc = "reconnect"
    /\ \E ok \in own_conn_results :
          IF ok
          THEN /\ own_server' = TRUE
               /\ pc' = "retry_sendmail"
               /\ UNCHANGED <<budget, smtp_server, sends, burst_transient,
                              delivered, burst_had_421, attempt, retry_delay,
                              last_code, sent_ok, first421, half_open>>
          ELSE /\ budget' = spent(budget)
               /\ own_server' = FALSE
               /\ \E left \in left_open :
                     /\ half_open + left <= MaxHalfOpen
                     /\ half_open' = half_open + left
               /\ IF own_attempt < CONN_MAX_ATTEMPTS - 1
                  THEN /\ pc' = "reconnect_wait"
                       /\ UNCHANGED <<smtp_server, sends, burst_transient,
                                      delivered, burst_had_421, attempt,
                                      retry_delay, last_code, sent_ok,
                                      first421>>
                  ELSE AfterAttempt("eNone", FALSE)
    /\ UNCHANGED <<stop, staticVars, progressVars, slept, preview, run,
                   prev_stuck, prev_success, cancel_run, loc0, own_attempt,
                   sliceVars, handed,
                   late_sends, stop_at, loc, taskVars, i, resultVars,
                   consecutive_conn_failures, conn_attempt, pause, old,
                   burst_count, wait_time, status, recov, observed,
                   earlyStop, stuck>>

\* the wait between two of these attempts is slept out: no token is looked at
ReconnectWait ==
    /\ pc = "reconnect_wait"
    /\ own_attempt' = own_attempt + 1
    /\ slices' = 0
    /\ pc' = "reconnect"
    /\ UNCHANGED <<stop, inputVars, moreVars, own_server, overslept,
                   ghostVars, loc, taskVars, i, resultVars, connVars,
                   pacerVars, retryVars, histVars, observed, earlyStop,
                   burst_transient, stuck>>

\* sendmail over the session send_one_email opened, which it then closes
RetrySendmail ==
    /\ pc = "retry_sendmail"
    /\ \E out \in sendmail_results :
          /\ AfterAttempt(out, FALSE)
          /\ budget' = IF out = "ok" THEN budget ELSE spent(budget)
    /\ own_server' = FALSE
    /\ UNCHANGED <<stop, staticVars, moreVars, own_attempt, sliceVars, handed,
                   late_sends, stop_at, loc, taskVars, i, resultVars,
                   consecutive_conn_failures, conn_attempt, pause, old,
                   burst_count, wait_time, status, recov, observed,
                   earlyStop, stuck>>

\* ------------------------------------------------------------------ waits
\* the states in which the worker sleeps in slices of 0.5 s
WaitStates == {"pausing", "conn_wait", "retry_wait", "reconnect_wait"}

\* the waits whose loop looks at the token before every slice
checks_token(at) == at # "reconnect_wait"

\* one more slice of the wait is slept: the loop found time remaining and,
\* where it looks at the token, found it not set
Slice ==
    /\ pc \in WaitStates
    /\ sliced
    /\ slices < MaxSlices
    /\ checks_token(pc) => ~stop
    /\ slices' = slices + 1
    /\ overslept' = (overslept \/ stop)
    /\ UNCHANGED <<pc, stop, inputVars, moreVars, ownVars, ghostVars, loc,
                   taskVars, i, resultVars, connVars, pacerVars, retryVars,
                   histVars, burst_transient, stuck, observed, earlyStop>>

\* the interpreter collects the SMTP objects of failed attempts, which
\* closes their sockets; when it does is not up to the program
Collect ==
    /\ half_open > 0
    /\ half_open' = 0
    /\ UNCHANGED <<pc, stop, inputVars, progressVars, slept, preview, run,
                   prev_stuck, prev_success, cancel_run, loc0, laterVars, loc,
                   taskVars, i, resultVars,
                   connVars, pacerVars, retryVars, histVars, burst_transient,
                   stuck, observed, earlyStop>>

\* ------------------------------------------------------ FileOutcomeRouter
\* the files a move loop may actually move
MovableSets(g) ==
    IF g <= FlakyGroups /\ detailed
    THEN SUBSET task_files(g) ELSE {task_files(g)}

\* mutant: the two destinations exchanged
route_swapped(ok) == IF ok THEN "failed" ELSE "sent"

\* mutant: the files of a failed task go to the sent folder as well
route_sent(ok) == "sent"

\* where the files of a resolved task are moved: sent_path, or failed/
route(ok) == IF ok THEN "sent" ELSE "failed"

\* mutant: the files of the group listed next are moved along
moved_to_following(g, moved, where) ==
    [h \in Groups |->
        [k \in FilesOf(h) |->
            IF (h = g /\ k \in moved) \/ h = g + 1 THEN where
            ELSE loc[h][k]]]

\* mutant: the move loop stops after the first file
moved_to_first(g, moved, where) ==
    [loc EXCEPT ![g] = [k \in FilesOf(g) |->
                           IF k \in moved /\ k = 1 THEN where
                           ELSE loc[g][k]]]

moved_to(g, moved, where) ==
    [loc EXCEPT ![g] = [k \in FilesOf(g) |->
                           IF k \in moved THEN where ELSE loc[g][k]]]

\* mutant: the move loop is left at the first move that raises
kept_moving_break(g, moved) ==
    {k \in moved : \A r \in task_files(g) \ moved : k < r}

\* the files that end up moved when the moves of the others raise: each
\* move has its own try, so every file whose move does not raise
kept_moving(g, moved) == moved

unmoved(g, moved) == {<<g, k>> : k \in task_files(g) \ moved}

\* mutant: an exception of the observer leaves the loop
after_report_propagating(cb) ==
    IF cb = "raises" THEN "unwinding" ELSE "task_start"

\* where main() goes on after the progress report: an exception of the
\* observer is caught and logged
after_report(cb) == "task_start"

\* main() after send_with_retries: pacer, counters, file moves, progress
\* report, next task
Resolve ==
    /\ pc = "resolve"
    /\ burst_count' = burst_count + 1
    /\ burst_had_421' = flag_after_result(burst_had_421, sent_ok, last_code)
    /\ IF sent_ok
       THEN /\ success' = success + 1
            /\ failed' = failed
            /\ status' = [status EXCEPT ![cur] = "success"]
            /\ \E moved \in MovableSets(cur) :
                  /\ loc' = moved_to(cur, kept_moving(cur, moved), route(TRUE))
                  /\ stuck' = stuck \cup unmoved(cur, moved)
       ELSE /\ failed' = failed + 1
            /\ success' = success
            /\ status' = [status EXCEPT ![cur] = "failed"]
            /\ \E moved \in MovableSets(cur) :
                  /\ loc' = moved_to(cur, kept_moving(cur, moved),
                                  route(FALSE))
                  /\ stuck' = stuck \cup unmoved(cur, moved)
    /\ recov' = IF sent_ok /\ first421 THEN cur ELSE recov
    /\ completed' = completed + 1
    /\ IF progress_callback # "None"
       THEN /\ samples' = samples + 1
            /\ last_sample' = [completed |-> completed',
                               resolved |-> success' + failed']
       ELSE UNCHANGED <<samples, last_sample>>
    /\ i' = i + 1
    /\ pc' = after_report(progress_callback)
    /\ attempt' = 0
    /\ retry_delay' = 0
    /\ last_code' = "None"
    /\ sent_ok' = FALSE
    /\ sends' = 0
    /\ first421' = FALSE
    /\ UNCHANGED <<stop, inputVars, slept, preview, runVars, laterVars,
                   taskVars,
                   cancelled, connVars, pause, old, wait_time, observed,
                   earlyStop, burst_transient>>

\* the finally block: close the session, then return or re-raise
Finally ==
    /\ pc \in {"finally", "unwinding"}
    /\ smtp_server' = FALSE
    /\ pc' = IF pc = "finally" THEN "done" ELSE "raised"
    /\ UNCHANGED <<stop, inputVars, moreVars, laterVars, loc, taskVars, i, resultVars,
                   consecutive_conn_failures, conn_attempt, pacerVars,
                   retryVars, histVars, observed, earlyStop,
                   burst_transient, stuck>>

\* mutant: every call gets an event of its own
event_for_run_fresh(event) == FALSE

\* the stop event the worker passes to main(): self._stop_event, created
\* only when there is none yet
event_for_run(event) == event

\* the worker of _on_start_batch_send calls main() again on the same root
\* directory, with the same arguments and the same stop event, which nothing
\* clears: right after a call in which every task was counted as success,
\* or after cancel was requested
RunAgain ==
    /\ pc = "done"
    /\ run < MaxRuns
    /\ (total > 0 /\ success = total) \/ stop
    /\ run' = run + 1
    /\ stop' = event_for_run(stop)
    /\ prev_success' = (total > 0 /\ success = total)
    /\ cancel_run' = cancel_run
    /\ half_open' = half_open
    /\ prev_stuck' = (stuck # {})
    /\ loc0' = loc
    /\ pc' = "idle"
    /\ tasks' = <<>>
    /\ total' = 0
    /\ i' = 0
    /\ success' = 0
    /\ failed' = 0
    /\ cancelled' = FALSE
    /\ consecutive_conn_failures' = 0
    /\ conn_attempt' = 0
    /\ pause' = BURST_PAUSE_INITIAL
    /\ old' = BURST_PAUSE_INITIAL
    /\ burst_count' = 0
    /\ burst_had_421' = FALSE
    /\ status' = [g \in Groups |-> "unreached"]
    /\ recov' = 0
    /\ burst_transient' = FALSE
    /\ stuck' = {}
    /\ observed' = FALSE
    /\ earlyStop' = stop'
    /\ completed' = 0
    /\ samples' = 0
    /\ last_sample' = [completed |-> 0, resolved |-> 0]
    /\ UNCHANGED <<inputVars, loc, smtp_server, retryVars, sends,
                   first421, slept, preview, ownVars, slices>>
    /\ overslept' = FALSE
    /\ handed' = 0
    /\ late_sends' = 0
    /\ stop_at' = 0
    /\ delivered' = {}

Next ==
    \/ Cancel
    \/ Preflight
    \/ TaskStart
    \/ BeforeSend
    \/ PauseEnd
    \/ AfterPace
    \/ Connect
    \/ ConnWait
    \/ SendFirst
    \/ RetryCheck
    \/ RetryWait
    \/ RetrySend
    \/ Reconnect
    \/ ReconnectWait
    \/ RetrySendmail
    \/ Slice
    \/ Collect
    \/ Resolve
    \/ Finally
    \/ RunAgain

Spec == Init /\ [][Next]_vars

\* ------------------------------------------------- BurstPacer on its own
\* the loop body between two calls of before_send, as the pacer sees it:
\* nothing (the connection failed), or on_retry_421 calls and on_send_result
PacerTask ==
    /\ pc = "after_pace"
    /\ \E reached, saw421, ok \in BOOLEAN, code \in ErrorCodes :
          /\ ok => code = "None"
          /\ (~ok /\ code = "421") => saw421
          /\ ~reached => (~saw421 /\ ok)
          /\ burst_transient' = (burst_transient \/ saw421)
          /\ handed' = IF reached THEN handed + 1 ELSE handed
          /\ IF reached
             THEN /\ burst_count' = burst_count + 1
                  /\ burst_had_421' = flag_after_result(
                         IF saw421 THEN flag_after_attempt(burst_had_421, "421")
                         ELSE burst_had_421, ok, code)
             ELSE UNCHANGED <<burst_count, burst_had_421>>
    /\ pc' = "before_send"
    /\ UNCHANGED <<stop, inputVars, moreVars, ownVars, sliceVars, late_sends,
                   stop_at, delivered, loc, taskVars, i, resultVars, connVars,
                   pause, old, retryVars, histVars, stuck, observed,
                   earlyStop>>

\* a pacer as BurstPacer() constructs it, before the first before_send
InitPacer ==
    /\ pc = "before_send"
    /\ smtp_config = [loaded |-> TRUE, host |-> TRUE, username |-> TRUE]
    /\ dirs = <<>>
    /\ project_names = {}
    /\ project = <<>>
    /\ supplier_code = <<>>
    /\ email_addresses = {}
    /\ progress_callback = "None"
    /\ nfiles = <<>>
    /\ budget = Unlimited
    /\ InitState

NextPacer ==
    \/ BeforeSend
    \/ PauseEnd
    \/ PacerTask
    \/ Slice

SpecPacer == InitPacer /\ [][NextPacer]_vars

\* ------------------------------------------------- TaskBuilder on its own
\* the codes found in file names and the keys found in the address book
BuildCodes == {<<0, 0, 0, 0, 7>>, <<0, 0, 0, 7, 0>>, <<1, 0, 0, 0, 7>>}
BuildKeys == {<<0, 0, 0, 0, 7>>, <<7>>, <<7, 0>>, <<0, 7>>}
BuildFolders == {1, 2}
\* an entry of the root directory: a project folder with both subfolders,
\* one without the sent folder, one without the pending folder, and an
\* entry that is no directory named "...项目"
DirKinds ==
    {[named |-> TRUE, pending |-> TRUE, sent |-> TRUE],
     [named |-> TRUE, pending |-> TRUE, sent |-> FALSE],
     [named |-> TRUE, pending |-> FALSE, sent |-> TRUE],
     [named |-> FALSE, pending |-> TRUE, sent |-> TRUE]}

\* count_pending_tasks is called (the preview of the GUI)
CountPending ==
    /\ preview = NotCalled
    /\ pc \in {"idle", "task_start", "done"}
    /\ preview' = count_pending_tasks
    /\ UNCHANGED <<pc, stop, inputVars, progressVars, slept, runVars,
                   laterVars, loc,
                   taskVars, i, resultVars, connVars, pacerVars, retryVars,
                   histVars, burst_transient, stuck, observed, earlyStop>>

\* a root directory before main() or count_pending_tasks is called on it
InitBuild ==
    /\ pc = "idle"
    /\ smtp_config \in {c \in Configs : c.host = c.username}
    /\ dirs \in [BuildFolders -> DirKinds]
    /\ project_names \in {{}, {1}}
    /\ \E n \in 0..MaxBuildGroups :
          /\ nfiles = [g \in 1..n |-> 1]
          /\ project \in [1..n -> {f \in BuildFolders : dirs[f].pending}]
          /\ supplier_code \in [1..n -> BuildCodes]
          /\ \A g, h \in 1..n :
                (project[g] = project[h] /\ supplier_code[g] = supplier_code[h])
                    => g = h
    /\ email_addresses \in {b \in SUBSET BuildKeys : Cardinality(b) <= 2}
    /\ budget = Unlimited
    /\ progress_callback = "None"
    /\ InitState

NextBuild ==
    \/ Preflight
    \/ CountPending

SpecBuild == InitBuild /\ [][NextBuild]_vars

\* ================================================================ claims
Returned == pc = "done"
\* the run ended in Failed-Closed
Aborted == consecutive_conn_failures >= CONN_FAIL_LIMIT
AllFiles == {<<g, k>> : g \in Groups, k \in 1..MaxFiles} \cap
            {f \in (Groups \X (1..MaxFiles)) : f[2] \in FilesOf(f[1])}
LocOf(f) == loc[f[1]][f[2]]
NothingMoved == loc = loc0
\* position of group g in the task list
RECURSIVE IndexFrom(_, _)
IndexFrom(g, k) ==
    IF k > Len(tasks) THEN 0
    ELSE IF tasks[k] = g THEN k ELSE IndexFrom(g, k + 1)
IndexOf(g) == IndexFrom(g, 1)
\* the files of the tasks main() built
TaskFiles == {f \in AllFiles : IndexOf(f[1]) # 0}

\* C1 (as stated): at return of main() success + failed <= total, and
\* success + failed = total whenever cancelled is false; stated here for the
\* runs in which the token is never set.
C1_Orig ==
    (Returned /\ ~stop) => /\ success + failed <= total
                           /\ (~cancelled => success + failed = total)

\* C1 (amended): at return of main() success + failed <= total, and
\* success + failed = total whenever cancelled is false and the run did not
\* abort on three consecutive connection failures.
C1_Counts ==
    Returned => /\ success + failed <= total
                /\ (~cancelled /\ ~Aborted => success + failed = total)

C1_Witness ==
    /\ Returned /\ ~cancelled /\ ~Aborted
    /\ success >= 1 /\ failed >= 2 /\ success + failed = total

\* C2 (as stated): with the token set before any task starts, main() returns
\* cancelled = true, success = failed = 0 and no file moved, for every task
\* list including the empty one.
C2_Orig ==
    (Returned /\ earlyStop /\ cfgOk) =>
        cancelled /\ success = 0 /\ failed = 0 /\ NothingMoved

\* C2 (amended): with the token set before any task starts and at least one
\* task built, main() returns cancelled = true, success = failed = 0 and no
\* file moved.
C2_EarlyCancel ==
    (Returned /\ earlyStop /\ total > 0) =>
        cancelled /\ success = 0 /\ failed = 0 /\ NothingMoved

C2_Witness == Returned /\ earlyStop /\ total > 1 /\ cancelled

\* C3: when the loop's connection establishment has failed three times in a
\* row the run stops with cancelled = false, failed counts exactly the tasks
\* started and not sent, and every task after the aborting one is unreached
\* with its files still pending.
C3_FailedClosed ==
    (Returned /\ Aborted) =>
        /\ ~cancelled
        /\ success + failed = i
        /\ failed = Cardinality({k \in 1..i :
                         status[tasks[k]] \in {"failed", "connfailed"}})
        /\ \A k \in (i + 1)..total :
              /\ status[tasks[k]] = "unreached"
              /\ \A f \in FilesOf(tasks[k]) : loc[tasks[k]][f] = "pending"

C3_Witness == Returned /\ Aborted /\ i < total /\ failed = 3 /\ ~stop

\* C4 (as stated): at return every file is in exactly one of pending, sent,
\* failed, and it is still pending only if its task was not reached because
\* the run was cancelled first; stated here for the runs in which the token
\* is never set, where no file may then stay pending.
C4_Orig ==
    (Returned /\ ~stop) =>
        \A f \in TaskFiles :
            /\ LocOf(f) \in {"pending", "sent", "failed"}
            /\ LocOf(f) = "pending" =>
                   (status[f[1]] = "unreached" /\ cancelled)

\* C4 (amended): at return every file is in exactly one of pending, sent,
\* failed, and it is still pending only if its task was never started (the
\* run was cancelled or stopped in Failed-Closed before it), its task failed
\* at the loop's connection establishment, or moving that file raised.
C4_FileOutcome ==
    Returned =>
        \A f \in TaskFiles :
            /\ LocOf(f) \in {"pending", "sent", "failed"}
            /\ LocOf(f) = "pending" =>
                   \/ status[f[1]] = "unreached" /\ (cancelled \/ Aborted)
                   \/ status[f[1]] = "connfailed"
                   \/ f \in stuck

C4_Witness ==
    /\ Returned /\ cancelled
    /\ \E f, g, h \in TaskFiles :
          /\ LocOf(f) = "sent" /\ LocOf(g) = "failed"
          /\ LocOf(h) = "pending" /\ status[h[1]] = "unreached"

\* C5 (as stated): once a checkpoint of the loop (task start, after the
\* burst pause, during connection establishment, during a retry wait) has
\* seen the token set, the run returns cancelled = true; the counters only
\* grow, so the outcomes recorded before are kept either way.
C5_Orig == (Returned /\ observed) => cancelled

\* C6: send_with_retries calls send_one_email at most MAX_RETRIES times for
\* one task.
C6_MaxAttempts == sends <= MAX_RETRIES /\ MAX_RETRIES = 5

C6_Witness == pc = "resolve" /\ sends = 5 /\ ~sent_ok /\ ~stop

\* C7 (as stated): after an attempt that failed with a code other than 421,
\* or with no code, no further attempt is made for the task.
C7_Orig ==
    [][(pc \in {"retry_send", "reconnect", "retry_sendmail"}
        /\ last_code # "421") => sends' = sends]_vars

\* C8: a task whose first attempt returned 421 and a retry of which
\* succeeded is counted in success, the pacer's flag stays set for the rest
\* of the burst, and the adjustment at the burst boundary multiplies the
\* pause.
C8_TransientRecovered ==
    recov # 0 =>
        /\ status[recov] = "success"
        /\ success >= 1
        /\ burst_had_421
        /\ pc = "pausing" =>
               pause = Min(BURST_PAUSE_MAX, old * BURST_PAUSE_MULTIPLY)

C8_Witness == pc = "pausing" /\ recov # 0 /\ failed = 0 /\ pause > old

\* C9: at a burst boundary the pause gets strictly smaller after a burst
\* without a 421 unless it was at the minimum, and strictly larger after a
\* burst with a 421 unless it was at the maximum.
C9_BurstAdjust ==
    pc = "pausing" =>
        IF burst_transient
        THEN pause > old \/ (old = BURST_PAUSE_MAX /\ pause = old)
        ELSE pause < old \/ (old = BURST_PAUSE_MIN /\ pause = old)

C9_Witness ==
    /\ pc = "pausing" /\ burst_transient
    /\ old < BURST_PAUSE_INITIAL /\ pause > BURST_PAUSE_INITIAL

\* the nominal delay before retry a: base, doubled per retry, capped
RECURSIVE Nominal(_)
Nominal(a) ==
    IF a <= 1 THEN RETRY_BASE_DELAY
    ELSE Min(2 * Nominal(a - 1), RETRY_MAX_DELAY)

\* C10: the nominal retry delay starts at the base delay, doubles per retry
\* up to the cap, never decreases, and every wait drawn lies within
\* [0.8, 1.2] times the nominal delay.
C10_Backoff ==
    /\ attempt >= 1 =>
          /\ retry_delay = Nominal(attempt)
          /\ attempt >= 2 => retry_delay >= Nominal(attempt - 1)
          /\ retry_delay \in {300, 600}
    /\ pc = "retry_wait" =>
          /\ 10 * wait_time >= 8 * retry_delay
          /\ 10 * wait_time <= 12 * retry_delay

C10_Witness ==
    pc = "retry_wait" /\ attempt = 3 /\ retry_delay = 600 /\ wait_time = 720

Matches(key, c) ==
    \/ key = c
    \/ /\ Len(key) <= Len(c)
       /\ \A k \in 1..Len(key) : key[k] = c[Len(c) - Len(key) + k]
       /\ \A k \in 1..(Len(c) - Len(key)) : c[k] = 0
       /\ (key[1] # 0 \/ Len(key) = 1)
\* the groups main() comes across: in a walked folder with both subfolders
Candidates ==
    {g \in Groups : /\ to_process(project[g])
                    /\ dirs[project[g]].pending /\ dirs[project[g]].sent
                    /\ \E k \in FilesOf(g) : loc0[g][k] = "pending"}
Addressed == {g \in Groups : \E key \in email_addresses :
                                  Matches(key, supplier_code[g])}

\* C12: total is the number of groups main() comes across whose code has an
\* address under the exact key or under the key without leading zeros; a
\* group without such a key is never a task.
C12_Total ==
    (pc # "idle" /\ cfgOk) =>
        /\ total = Cardinality(Candidates \cap Addressed)
        /\ \A k \in 1..Len(tasks) : tasks[k] \in Candidates \cap Addressed

\* three groups, two of them with an address, one of these only under the
\* stripped key
C12_Witness ==
    /\ pc # "idle" /\ cfgOk
    /\ Cardinality(Candidates) = 3
    /\ total = 2
    /\ \E k \in 1..Len(tasks) : supplier_code[tasks[k]] \notin email_addresses

\* C13 as stated: count_pending_tasks returns the number of tasks main()
\* builds on the same root directory and filter, and moves no file
C13_Orig ==
    (preview # NotCalled /\ pc # "idle" /\ cfgOk) =>
        (preview = total /\ NothingMoved)

\* the files a task of this call was built from
FilesAtStart(g) == {k \in FilesOf(g) : loc0[g][k] = "pending"}

\* C14: a task counted as failed after its send failed has every file whose
\* move did not raise in the failed folder, and the loop has gone on to the
\* next task; a task counted as failed because no session could be opened
\* keeps its files pending, and the loop has gone on unless that was the
\* third such failure in a row.
C14_FailedRouted ==
    \A k \in 1..total :
        /\ status[tasks[k]] = "failed" =>
              /\ \A n \in FilesAtStart(tasks[k]) :
                    \/ loc[tasks[k]][n] = "failed"
                    \/ <<tasks[k], n>> \in stuck /\ loc[tasks[k]][n] = "pending"
              /\ i > k
        /\ status[tasks[k]] = "connfailed" =>
              /\ loc[tasks[k]] = loc0[tasks[k]]
              /\ (i > k \/ (i = k /\ Aborted))

\* a failed task with its files in the failed folder, and the next task sent
C14_Witness ==
    \E k \in 1..(total - 1) :
        /\ status[tasks[k]] = "failed"
        /\ \A n \in FilesAtStart(tasks[k]) : loc[tasks[k]][n] = "failed"
        /\ status[tasks[k + 1]] = "success"

\* C14 as stated, for calls in which the token is never set and no move
\* raises: every task counted as failed has all its files in the failed
\* folder and the loop has gone on to the next task
C14_Orig ==
    (~stop /\ stuck = {}) =>
        \A k \in 1..total :
            status[tasks[k]] \in {"failed", "connfailed"} =>
                /\ \A n \in FilesAtStart(tasks[k]) : loc[tasks[k]][n] = "failed"
                /\ i > k

\* C15: a file whose move raised stays pending while its task keeps the
\* outcome it was counted with: the counters still agree with the outcomes,
\* the other files of the task are moved and the loop has gone on.
C15_MoveFailure ==
    /\ \A f \in stuck :
          /\ status[f[1]] \in {"success", "failed"}
          /\ LocOf(f) = "pending"
          /\ \A n \in FilesAtStart(f[1]) :
                <<f[1], n>> \notin stuck =>
                    loc[f[1]][n] = IF status[f[1]] = "success" THEN "sent"
                                   ELSE "failed"
          /\ \E k \in 1..total : tasks[k] = f[1] /\ i > k
    /\ stuck # {} =>
          /\ success = Cardinality({g \in Groups : status[g] = "success"})
          /\ failed = Cardinality({g \in Groups :
                                      status[g] \in {"failed", "connfailed"}})

\* the move of the first file of a sent task raised, its second file is in
\* the sent folder, and the next task was sent as well
C15_Witness ==
    /\ stuck = {<<1, 1>>}
    /\ status[1] = "success" /\ loc[1][2] = "sent"
    /\ total > 1 /\ status[tasks[2]] = "success"
    /\ success = 2

\* C16: with credentials that are missing or lack the host or the username,
\* main() returns the empty result, and no task is built, no connection is
\* tried, nothing is sent, no file is moved.
C16_NoCredentials ==
    ((~smtp_config.loaded \/ ~smtp_config.host \/ ~smtp_config.username)
     /\ pc # "idle") =>
        /\ pc = "done"
        /\ success = 0 /\ failed = 0 /\ ~cancelled
        /\ tasks = <<>> /\ total = 0
        /\ ~smtp_server /\ conn_attempt = 0 /\ consecutive_conn_failures = 0
        /\ sends = 0 /\ samples = 0 /\ completed = 0
        /\ \A g \in Groups : status[g] = "unreached"
        /\ NothingMoved

\* credentials with a host but no username, files pending for two groups
C16_Witness ==
    /\ pc = "done"
    /\ smtp_config.loaded /\ smtp_config.host /\ ~smtp_config.username
    /\ Cardinality(Groups) > 1
    /\ \A f \in AllFiles : LocOf(f) = "pending"

\* C17 as stated: whatever connection, message building, sending, file
\* routing and progress observation do, main() never ends by an exception
C17_Orig == pc \notin {"unwinding", "raised"}

\* C18 as stated, for calls with an observer in which the token is never
\* set: between two tasks the observer has been called once for every task
\* counted as success or as failed, and the last sample's completed value
\* was success + failed when it was emitted
C18_Orig ==
    (progress_callback # "None" /\ ~stop
     /\ pc \in {"task_start", "finally", "done"}) =>
        /\ samples = success + failed
        /\ last_sample.completed = last_sample.resolved

\* C19: with an observer that raises on every call the run is the run
\* without it: each resolved task was reported once and the loop went on,
\* the tasks are taken in order, the counters agree with the outcomes, the
\* files lie where the outcomes put them, and an exception leaves main()
\* only from inside a send attempt.
C19_ObserverRaises ==
    progress_callback = "raises" =>
        /\ samples = Cardinality({g \in Groups :
                                      status[g] \in {"success", "failed"}})
        /\ pc \in {"unwinding", "raised"} => sends > 0
        /\ \A k \in 1..total :
              /\ k < i => status[tasks[k]] # "unreached"
              /\ k > i => status[tasks[k]] = "unreached"
        /\ success = Cardinality({g \in Groups : status[g] = "success"})
        /\ failed = Cardinality({g \in Groups :
                                     status[g] \in {"failed", "connfailed"}})
        /\ \A g \in Groups : \A n \in FilesAtStart(g) :
              \/ loc[g][n] = "pending"
                 /\ (status[g] \in {"unreached", "connfailed"}
                     \/ <<g, n>> \in stuck)
              \/ loc[g][n] = "sent" /\ status[g] = "success"
              \/ loc[g][n] = "failed" /\ status[g] = "failed"

\* two tasks, one sent and one failed, both reported to an observer that
\* raised, and main() returned
C19_Witness ==
    /\ progress_callback = "raises"
    /\ pc = "done" /\ run = 1
    /\ total = 2 /\ samples = 2
    /\ success = 1 /\ failed = 1

\* C20: at a burst boundary the pacer first adjusts its pause (doubled up to
\* the maximum after a burst with a 421, lowered by the decrement down to
\* the minimum otherwise) and then sleeps for the adjusted duration.
C20_AdjustThenPause ==
    /\ pc = "pausing" =>
          /\ slept = pause
          /\ pause = IF burst_had_421
                     THEN Min(BURST_PAUSE_MAX, old * BURST_PAUSE_MULTIPLY)
                     ELSE Max(BURST_PAUSE_MIN, old - BURST_PAUSE_DECREASE)
    /\ pc # "pausing" => slept = 0

\* a pause after a burst with a 421, slept with the doubled duration
C20_Witness ==
    /\ pc = "pausing" /\ burst_had_421
    /\ old = BURST_PAUSE_INITIAL
    /\ slept = BURST_PAUSE_INITIAL * BURST_PAUSE_MULTIPLY

\* C20 as stated: the pacer sleeps for the duration it held when the burst
\* ended, the adjusted one is kept for the next boundary
C20_Orig == pc = "pausing" => slept = old

\* ------------------------------------------------------------------ C21
\* a task is inside send_with_retries, or main() was left from inside it
InSendWithRetries ==
    pc \in {"retry_check", "retry_wait", "retry_send", "reconnect",
            "reconnect_wait", "retry_sendmail", "resolve", "unwinding",
            "raised"}

\* C21: burst_count is the number of tasks handed to send_with_retries since
\* the last pause (or the start of the call) whose send_with_retries has
\* returned, one per task whatever the number of its attempts; a pause is
\* being taken exactly when BURST_SIZE tasks were handed over since the last
\* one, and no task is connected for or sent with BURST_SIZE tasks counted
C21_BurstCount ==
    /\ burst_count = handed - (IF InSendWithRetries THEN 1 ELSE 0)
    /\ pc = "pausing" => handed = BURST_SIZE
    /\ pc \in {"after_pace", "connect", "conn_wait", "send"}
          => handed < BURST_SIZE

\* a pause begins after a burst in which one task needed a retry
C21_Witness ==
    /\ pc = "pausing"
    /\ handed = BURST_SIZE
    /\ burst_count = BURST_SIZE
    /\ recov # 0

\* ------------------------------------------------------------------ C22
\* C22: in every wait of the dispatch loop (burst pause, retry backoff,
\* connection backoff, also of a reconnect made during a retry) no further
\* slice is slept once the cancellation token is set
C22_Orig == ~overslept

\* ------------------------------------------------------------------ C23
\* a call of send_one_email has begun and not yet returned
InFlight == pc \in {"reconnect", "reconnect_wait", "retry_sendmail"}

\* C23: with the token set at any point of the call, at most one call of
\* send_one_email begins after it was set; a send is begun or in flight with
\* the token set only for the task that was in progress when it was set,
\* never for a later one; and a send that succeeds, in flight or begun late,
\* is processed as usual: its task is counted as success
C23_LateSend ==
    /\ late_sends <= 1
    /\ (stop /\ (pc \in {"send", "retry_send"} \/ InFlight)) => i <= stop_at
    /\ late_sends > 0 => (stop /\ i >= stop_at)
    /\ \A g \in delivered :
          status[g] = "success" \/ (pc = "resolve" /\ g = cur /\ sent_ok)

\* the token was set during the first task's retry, whose send was begun
\* after that and succeeded; the call was cancelled at the second task
C23_Witness ==
    /\ Returned
    /\ cancelled
    /\ late_sends = 1
    /\ stop_at = 1
    /\ i = 2
    /\ total >= 2
    /\ status[tasks[1]] = "success"
    /\ tasks[1] \in delivered

\* ------------------------------------------------------------------ C24
\* between a failed attempt of a task and its next attempt
AfterFailedAttempt == pc \in {"retry_check", "retry_wait", "retry_send"}

\* from the return of send_with_retries to the next connect-or-send choice
BetweenSends ==
    pc \in {"resolve", "task_start", "before_send", "pausing", "after_pace"}

\* C24 as claimed: the loop holds a session after every successful send and
\* holds none after any failed attempt
C24_Orig ==
    /\ (pc = "resolve" /\ sent_ok) => smtp_server
    /\ AfterFailedAttempt => ~smtp_server

\* C24: the first attempt of a task goes over the session the loop holds and
\* a success leaves it with the loop, which keeps it up to the next task's
\* first attempt and establishes a connection only when it holds none; after
\* a failed attempt the loop holds no session unless the attempt returned
\* without a code before any transport call (no recipient); a retry that
\* succeeds used a session of its own, closed before it returned, so the loop
\* holds none after it
C24_Session ==
    /\ [](pc = "send" => smtp_server)
    /\ []((pc = "resolve" /\ sent_ok /\ sends = 1) => smtp_server)
    /\ []((pc = "resolve" /\ sent_ok /\ sends > 1) => ~smtp_server)
    /\ []((AfterFailedAttempt /\ smtp_server) => last_code = "None")
    /\ []((pc \in {"connect", "conn_wait"} \/ InFlight) => ~smtp_server)
    /\ []((own_server => pc = "retry_sendmail") /\ ~(own_server /\ smtp_server))
    /\ [][BetweenSends => smtp_server' = smtp_server]_vars

\* the first task succeeded in a retry, over a session of its own: the loop
\* holds none and connects again for the second task
C24_Witness ==
    /\ pc = "connect"
    /\ i = 2
    /\ status[tasks[1]] = "success"
    /\ tasks[1] \in delivered
    /\ ~smtp_server
    /\ consecutive_conn_failures = 0

\* ------------------------------------------------------------------ C25
\* the tasks of the list the loop is through with
Resolved == {k \in 1..total : status[tasks[k]] # "unreached"}

\* the number of tasks up to the k-th, counted back from it, whose loop
\* connection establishment failed
RECURSIVE TrailingConnFailed(_)
TrailingConnFailed(k) ==
    IF k = 0 \/ status[tasks[k]] # "connfailed" THEN 0
    ELSE 1 + TrailingConnFailed(k - 1)

\* C25: consecutive_conn_failures is 0 while a task is being sent (its
\* session was established or kept) and otherwise the number of tasks, back
\* from the last one the loop is through with, whose connection
\* establishment failed, whatever send failures occurred; it never exceeds
\* CONN_FAIL_LIMIT = 3, the loop is left with tasks remaining as soon as it
\* is 3, and a call that returns below 3 was cancelled or went through the
\* whole list
C25_ConnFailures ==
    /\ CONN_FAIL_LIMIT = 3
    /\ consecutive_conn_failures =
          IF pc = "send" \/ InSendWithRetries THEN 0
          ELSE TrailingConnFailed(Cardinality(Resolved))
    /\ consecutive_conn_failures <= CONN_FAIL_LIMIT
    /\ consecutive_conn_failures = CONN_FAIL_LIMIT
          => (pc \in {"finally", "done"} /\ i <= total /\ ~cancelled)
    /\ (Returned /\ consecutive_conn_failures < CONN_FAIL_LIMIT)
          => (cancelled \/ i > total \/ total = 0)

\* two tasks in a row could not be connected for, the third could, and its
\* send failed: the counter is back at 0 and stays there
C25_Witness ==
    /\ pc = "retry_check"
    /\ i = 3
    /\ status[tasks[1]] = "connfailed"
    /\ status[tasks[2]] = "connfailed"
    /\ consecutive_conn_failures = 0
    /\ sends >= 1

\* ------------------------------------------------------------------ C26
\* a five-digit code as a number: for codes of one width the order of the
\* numbers is the lexicographic order of the strings
CodeValue(c) ==
    c[1] * 10000 + c[2] * 1000 + c[3] * 100 + c[4] * 10 + c[5]

\* C26: the task list main() built is in ascending order of origin folder
\* and, within one folder, of destination code, in whatever order the
\* listing of the pending directory gave the files
C26_Orig ==
    \A a, b \in 1..Len(tasks) :
        a < b =>
            \/ project[tasks[a]] < project[tasks[b]]
            \/ /\ project[tasks[a]] = project[tasks[b]]
               /\ CodeValue(supplier_code[tasks[a]])
                      < CodeValue(supplier_code[tasks[b]])

\* ------------------------------------------------------------------ C27
\* the tasks the loop never started when it was left at task i: those after
\* it, and task i itself when the loop was left at one of its token checks
NeverStarted == {k \in 1..total : k > i \/ (k = i /\ cancelled)}

\* C27: when main() returns after a cancellation or after the abort on the
\* third consecutive connection failure, no task the loop never started has
\* a result, and each of its files is where it was when main() was called,
\* in the pending folder
C27_Untouched ==
    (Returned /\ (cancelled \/ Aborted)) =>
        \A k \in NeverStarted :
            /\ status[tasks[k]] = "unreached"
            /\ loc[tasks[k]] = loc0[tasks[k]]
            /\ \A f \in FilesAtStart(tasks[k]) : loc[tasks[k]][f] = "pending"

\* a call cancelled after its first task was sent and its files moved, with
\* tasks left
C27_Witness ==
    /\ Returned
    /\ cancelled
    /\ success >= 1
    /\ NeverStarted # {}
    /\ loc[tasks[1]] # loc0[tasks[1]]
    /\ FilesAtStart(tasks[total]) # {}

\* ------------------------------------------------------------------ C28
\* C28: whatever calls of before_send, on_send_result and on_retry_421 the
\* loop makes, the pause stays within BURST_PAUSE_MIN (3.0 s) and
\* BURST_PAUSE_MAX (60.0 s) and burst_count within 0 and BURST_SIZE (5)
C28_PacerRange ==
    /\ BURST_PAUSE_MIN = 30 /\ BURST_PAUSE_MAX = 600 /\ BURST_SIZE = 5
    /\ BURST_PAUSE_MIN <= pause /\ pause <= BURST_PAUSE_MAX
    /\ 0 <= burst_count /\ burst_count <= BURST_SIZE

\* a pause that was already at the floor is shortened again after a full
\* burst without 421
C28_Witness ==
    /\ pc = "pausing"
    /\ ~burst_had_421
    /\ old = BURST_PAUSE_MIN
    /\ pause = BURST_PAUSE_MIN
    /\ burst_count = BURST_SIZE

\* ------------------------------------------------------------------ C29
\* the connections to the server that are open: the session the loop holds,
\* the one a retry opened for itself, and those failed attempts left open
OpenSessions ==
    (IF smtp_server THEN 1 ELSE 0) + (IF own_server THEN 1 ELSE 0) + half_open

\* C29: at no moment of the call is more than one transport session open,
\* and none is open once main() has returned
C29_Orig ==
    /\ OpenSessions <= 1
    /\ Returned => OpenSessions = 0

\* ------------------------------------------------------------------ C30
\* C30: of the files a task of this call was built from, one is in the sent
\* folder only if a send of the task succeeded and the task was counted as
\* success, one is in the failed folder only if the task was counted as
\* failed after send_with_retries, and no task has a file in each
C30_Routing ==
    \A g \in Groups :
        /\ \A k \in FilesAtStart(g) :
              /\ loc[g][k] = "sent" =>
                    g \in delivered /\ status[g] = "success" /\ success > 0
              /\ loc[g][k] = "failed" =>
                    g \notin delivered /\ status[g] = "failed" /\ failed > 0
        /\ ~ \E k, n \in FilesAtStart(g) :
                loc[g][k] = "sent" /\ loc[g][n] = "failed"

\* the first task was sent and both its files are in the sent folder, the
\* second failed and its file is in the failed folder
C30_Witness ==
    /\ Returned
    /\ total >= 2
    /\ \A k \in FilesOf(tasks[1]) : loc[tasks[1]][k] = "sent"
    /\ Cardinality(FilesOf(tasks[1])) = MaxFiles
    /\ \A k \in FilesOf(tasks[2]) : loc[tasks[2]][k] = "failed"
    /\ success = 1
    /\ failed = 1

CancelledBefore == cancel_run > 0 /\ cancel_run < run

\* C32: the stop event, once set, stays set over every later call of the
\* session; a call begun after cancel was requested makes no connection and
\* no send attempt, counts and moves nothing, and when it has built at least
\* one task it returns with cancelled = true
C32_CancelPersists ==
    /\ [][stop => stop']_vars
    /\ [](stop <=> cancel_run > 0)
    /\ [](CancelledBefore =>
            /\ stop
            /\ pc \in {"idle", "task_start", "finally", "done"}
            /\ sends = 0 /\ late_sends = 0 /\ handed = 0
            /\ ~smtp_server /\ ~own_server
            /\ success = 0 /\ failed = 0 /\ completed = 0
            /\ loc = loc0
            /\ (Returned /\ total > 0) => cancelled)

\* the second call of a session whose first call was cancelled after one
\* task was sent: it built the tasks left over and returned cancelled
C32_Witness ==
    /\ run = 2
    /\ cancel_run = 1
    /\ Returned
    /\ cancelled
    /\ total >= 1
    /\ \E g \in Groups : \A k \in FilesOf(g) : loc[g][k] = "sent"
    /\ \A k \in 1..total : status[tasks[k]] = "unreached"

\* ------------------------------------------------------------------ C33
\* the steps of the worker inside one call of main()
WorkerNext ==
    \/ Preflight \/ TaskStart \/ BeforeSend \/ PauseEnd \/ AfterPace
    \/ Connect \/ ConnWait \/ SendFirst \/ RetryCheck \/ RetryWait
    \/ RetrySend \/ Reconnect \/ ReconnectWait \/ RetrySendmail \/ Slice
    \/ Resolve \/ Finally

\* main() has returned or raised
Ended == pc \in {"done", "raised"}

\* the tasks the loop still has to visit
Remaining ==
    IF pc = "idle" THEN Cardinality(Groups) + 2
    ELSE IF pc \in {"finally", "unwinding", "done", "raised"} THEN 0
    ELSE total - i + 1

\* how far the iteration is from its end
Phase ==
    CASE pc = "task_start" -> 9
      [] pc = "before_send" -> 8
      [] pc = "pausing" -> 7
      [] pc = "after_pace" -> 6
      [] pc \in {"connect", "conn_wait"} -> 5
      [] pc = "send" -> 4
      [] pc \in {"retry_check", "retry_wait", "retry_send", "reconnect",
                 "reconnect_wait", "retry_sendmail"} -> 3
      [] pc = "resolve" -> 2
      [] pc \in {"finally", "unwinding"} -> 1
      [] OTHER -> 0

\* the rounds left of the loop the worker is in: connection attempts of the
\* loop's establishment, or retries of send_with_retries
Rounds ==
    IF pc = "connect" THEN 2 * (CONN_MAX_ATTEMPTS - conn_attempt) + 1
    ELSE IF pc = "conn_wait" THEN 2 * (CONN_MAX_ATTEMPTS - conn_attempt)
    ELSE IF Phase = 3 THEN MAX_RETRIES + 1 - attempt
    ELSE 0

\* how far a retry is from its end, the connection attempts it makes for
\* itself included
InRound ==
    CASE pc = "retry_check" -> 40
      [] pc = "retry_wait" -> 30
      [] pc = "retry_send" -> 20
      [] pc = "reconnect" -> 2 * (CONN_MAX_ATTEMPTS - own_attempt) + 2
      [] pc = "reconnect_wait" -> 2 * (CONN_MAX_ATTEMPTS - own_attempt) + 1
      [] pc = "retry_sendmail" -> 1
      [] OTHER -> 0

Measure == <<Remaining, Phase, Rounds, InRound, MaxSlices - slices>>

LexLess(a, b) ==
    \E k \in 1..5 : a[k] < b[k] /\ \A j \in 1..(k - 1) : a[j] = b[j]

\* C33: in a call of main() that has not ended the worker always has a step
\* to take, and every step it takes lowers a measure that is never
\* negative: tasks still to visit, then the position in the iteration, then
\* the rounds left of the retry loop or of the connection attempts, then
\* the slices left of a wait; so the call ends after finitely many steps,
\* with or without the token set. No task is visited twice, a task sees at
\* most MAX_RETRIES send attempts and an establishment at most
\* CONN_MAX_ATTEMPTS connection attempts
C33_Terminates ==
    /\ [](~Ended => ENABLED WorkerNext)
    /\ [][(~Ended /\ (pc' # pc \/ slices' # slices))
             => LexLess(Measure', Measure)]_vars
    /\ [](\A k \in 1..5 : Measure[k] >= 0)
    /\ [][(pc \notin {"idle", "done"}) => (i' = i \/ i' = i + 1)]_vars
    /\ [](sends <= MAX_RETRIES /\ attempt <= MAX_RETRIES)
    /\ [](conn_attempt < CONN_MAX_ATTEMPTS /\ own_attempt < CONN_MAX_ATTEMPTS)

\* the longest way through one task: the loop's session came with the third
\* connection attempt, every send attempt failed, and the last retry made
\* three connection attempts of its own; the call then returned
C33_Witness ==
    /\ Returned
    /\ total = 1
    /\ i = 2
    /\ conn_attempt = CONN_MAX_ATTEMPTS - 1
    /\ own_attempt = CONN_MAX_ATTEMPTS - 1
    /\ attempt = 0
    /\ failed = 1
    /\ status[tasks[1]] = "failed"
    /\ progress_callback = "None"

====
